---- MODULE Spec2Model ----
(***************************************************************************)
(* cmus-lyrics: the track poller (checkCmusCmd, parseCmusOutput), the      *)
(* Genius lookup pipeline (GeniusAPIClient.GetLyrics) and the Bubble Tea   *)
(* model that ties them together (model.Update).                           *)
(*                                                                         *)
(* A Go string is a sequence of one-character strings.  A fixed message    *)
(* that the program only stores, compares and prints is kept as a          *)
(* one-element sequence holding the whole message.                         *)
(***************************************************************************)
EXTENDS Integers, Sequences, FiniteSets, Bags, TLC

VARIABLES
    running,    \* the tea.Program event loop has not returned
    player,     \* what `cmus-remote -Q` answers right now: [ok, out]
    m,          \* the model value held by the event loop
    ticks,      \* tea.Tick commands whose checkCmusTick is not yet handled
    fetches,    \* bag of fetchLyricsCmd commands whose message is not yet handled
    inbox,      \* bag of songInfoMsg messages of checkCmusCmd commands, not yet handled
    pollIn,     \* poller on its own: the player answer given to checkCmusCmd
    pollOut,    \* poller on its own: the message checkCmusCmd produced
    glIn,       \* pipeline on its own: the query and the remote's answers
    glOut,      \* pipeline on its own: what GetLyrics returned
    env,        \* what main finds: environment, config file, -query flag, remote
    proc        \* main: where it is, its client, its output and exit status

vars == <<running, player, m, ticks, fetches, inbox,
          pollIn, pollOut, glIn, glOut, env, proc>>

coordVars == <<running, player, m, ticks, fetches, inbox>>
pollVars == <<pollIn, pollOut>>
glVars == <<glIn, glOut>>
mainVars == <<env, proc>>

-----------------------------------------------------------------------------
(* Bounds *)

\* lines in a player answer given to the poller on its own
MaxLines == 4
\* poll chains alive at once (timer or unhandled answer)
MaxChains == 2
\* lyrics fetches outstanding at once (running or unhandled result)
MaxFetches == 2

-----------------------------------------------------------------------------
(* strings *)

NL == "\n"

\* strings.HasPrefix
HasPrefix(s, p) == Len(s) >= Len(p) /\ SubSeq(s, 1, Len(p)) = p

\* strings.TrimPrefix
TrimPrefix(s, p) == IF HasPrefix(s, p) THEN SubSeq(s, Len(p) + 1, Len(s)) ELSE s

\* strings.Contains, as an unanchored regexp match of a literal uses it
Contains(s, p) ==
    \E i \in 1..(Len(s) - Len(p) + 1) : SubSeq(s, i, i + Len(p) - 1) = p

\* index of the first occurrence of p in s at or after i, 0 when there is none
RECURSIVE IndexFrom(_, _, _)
IndexFrom(s, p, i) ==
    IF i + Len(p) - 1 > Len(s) THEN 0
    ELSE IF SubSeq(s, i, i + Len(p) - 1) = p THEN i
    ELSE IndexFrom(s, p, i + 1)

\* strings.Split(s, sep) for a non-empty sep
RECURSIVE Split(_, _)
Split(s, sep) ==
    LET i == IndexFrom(s, sep, 1)
    IN IF i = 0 THEN <<s>>
       ELSE <<SubSeq(s, 1, i - 1)>> \o Split(SubSeq(s, i + Len(sep), Len(s)), sep)

\* strings.Join
RECURSIVE Join(_, _)
Join(ss, sep) ==
    IF ss = <<>> THEN <<>>
    ELSE IF Len(ss) = 1 THEN Head(ss)
    ELSE Head(ss) \o sep \o Join(Tail(ss), sep)

\* strings.ReplaceAll(s, old, new) for a non-empty old
RECURSIVE ReplaceAll(_, _, _)
ReplaceAll(s, old, new) ==
    LET i == IndexFrom(s, old, 1)
    IN IF i = 0 THEN s
       ELSE SubSeq(s, 1, i - 1) \o new
            \o ReplaceAll(SubSeq(s, i + Len(old), Len(s)), old, new)

WhiteSpace == {" ", "\n", "\t", "\r"}

\* strings.TrimSpace
RECURSIVE TrimLeft(_)
TrimLeft(s) ==
    IF s # <<>> /\ Head(s) \in WhiteSpace THEN TrimLeft(Tail(s)) ELSE s

RECURSIVE TrimRight(_)
TrimRight(s) ==
    IF s # <<>> /\ s[Len(s)] \in WhiteSpace
    THEN TrimRight(SubSeq(s, 1, Len(s) - 1)) ELSE s

TrimSpace(s) == TrimRight(TrimLeft(s))

-----------------------------------------------------------------------------
(* errors: nil is the empty sequence, errors.Wrap puts its message first *)

NilErr == <<>>

errorsNew(msg) == <<msg>>

errorsWrap(err, msg) == <<msg>> \o err

-----------------------------------------------------------------------------
(* the track poller *)

TagArtist == <<"t","a","g"," ","a","r","t","i","s","t"," ">>
TagAlbum == <<"t","a","g"," ","a","l","b","u","m"," ">>
TagTitle == <<"t","a","g"," ","t","i","t","l","e"," ">>

StatusWord == <<"s","t","a","t","u","s"," ">>
Playing == <<"p","l","a","y","i","n","g">>
Paused == <<"p","a","u","s","e","d">>
Stopped == <<"s","t","o","p","p","e","d">>

\* regexp.MustCompile(`status (playing|paused)`).MatchString
StatusActive(output) ==
    Contains(output, StatusWord \o Playing) \/ Contains(output, StatusWord \o Paused)

NoTags == [artist |-> <<>>, album |-> <<>>, title |-> <<>>]

\* parseLine with the values trimmed of surrounding white space
parseLineTrimmed(acc, line) ==
    IF HasPrefix(line, TagArtist)
    THEN [acc EXCEPT !.artist = TrimSpace(TrimPrefix(line, TagArtist))]
    ELSE IF HasPrefix(line, TagAlbum)
    THEN [acc EXCEPT !.album = TrimSpace(TrimPrefix(line, TagAlbum))]
    ELSE IF HasPrefix(line, TagTitle)
    THEN [acc EXCEPT !.title = TrimSpace(TrimPrefix(line, TagTitle))]
    ELSE acc

\* the body of the loop over the lines
parseLine(acc, line) ==
    IF HasPrefix(line, TagArtist)
    THEN [acc EXCEPT !.artist = TrimPrefix(line, TagArtist)]
    ELSE IF HasPrefix(line, TagAlbum)
    THEN [acc EXCEPT !.album = TrimPrefix(line, TagAlbum)]
    ELSE IF HasPrefix(line, TagTitle)
    THEN [acc EXCEPT !.title = TrimPrefix(line, TagTitle)]
    ELSE acc

RECURSIVE parseLines(_, _)
parseLines(lines, acc) ==
    IF lines = <<>> THEN acc
    ELSE parseLines(Tail(lines), parseLine(acc, Head(lines)))

parseCmusOutput(output) == parseLines(Split(output, <<NL>>), NoTags)

ErrCmusTitle == <<"Error: cmus not running or not available">>
NoSongTitle == <<"No song playing">>
UnknownSongTitle == <<"Unknown song">>
ErrExec == errorsNew("exec: cmus-remote failed")
ErrMissing == errorsNew("missing artist or title information")

songInfoMsg(artist, album, title, err) ==
    [type |-> "songInfoMsg", artist |-> artist, album |-> album,
     title |-> title, lyrics |-> <<>>, err |-> err]

\* checkCmusCmd asking for an album as well
checkCmusCmdNeedsAlbum(p) ==
    IF ~p.ok THEN songInfoMsg(<<>>, <<>>, ErrCmusTitle, ErrExec)
    ELSE IF ~StatusActive(p.out) THEN songInfoMsg(<<>>, <<>>, NoSongTitle, NilErr)
    ELSE LET t == parseCmusOutput(p.out)
         IN IF t.artist = <<>> \/ t.title = <<>> \/ t.album = <<>>
            THEN songInfoMsg(<<>>, <<>>, UnknownSongTitle, ErrMissing)
            ELSE songInfoMsg(t.artist, t.album, t.title, NilErr)

\* the function checkCmusCmd returns, applied to the player's answer
checkCmusCmd(p) ==
    IF ~p.ok THEN songInfoMsg(<<>>, <<>>, ErrCmusTitle, ErrExec)
    ELSE IF ~StatusActive(p.out) THEN songInfoMsg(<<>>, <<>>, NoSongTitle, NilErr)
    ELSE LET t == parseCmusOutput(p.out)
         IN IF t.artist = <<>> \/ t.title = <<>>
            THEN songInfoMsg(<<>>, <<>>, UnknownSongTitle, ErrMissing)
            ELSE songInfoMsg(t.artist, t.album, t.title, NilErr)

-----------------------------------------------------------------------------
(* the Genius lookup pipeline *)

\* what the remote side answers to the three requests of one GetLyrics call:
\*   search : [fail, hits]   hits is the ordered list of result ids
\*   song   : [fail, path]
\*   page   : [fail, containers]   each lyrics container is a sequence of
\*            child nodes [excl, html], excl marking data-exclude-from-selection
\* fail is "none" or the step of the request that failed; "cancel" is the
\* context being cancelled while the request made with it is under way.

ErrTransport == errorsNew("transport error")
ErrStatus == errorsNew("unexpected status code")
ErrDecode == errorsNew("json decode error")
ErrBadURL == errorsNew("invalid URL")
ErrRead == errorsNew("read error")
ErrCanceled == errorsNew("context canceled")
ErrNoResults == errorsNew("no results")
ErrNoLyrics == errorsNew("no lyrics found on page")

\* search with a request that does not carry the context
searchWithoutContext(r, query) ==
    IF r.search.fail = "send"
    THEN [hits |-> <<>>, err |-> errorsWrap(ErrTransport, "send request")]
    ELSE IF r.search.fail = "status"
    THEN [hits |-> <<>>, err |-> ErrStatus]
    ELSE IF r.search.fail = "decode"
    THEN [hits |-> <<>>, err |-> errorsWrap(ErrDecode, "decode response")]
    ELSE [hits |-> r.search.hits, err |-> NilErr]

\* GeniusAPIClient.search: the hits of the response, or an error
search(r, query) ==
    IF r.search.fail = "cancel"
    THEN [hits |-> <<>>, err |-> errorsWrap(ErrCanceled, "send request")]
    ELSE IF r.search.fail = "send"
    THEN [hits |-> <<>>, err |-> errorsWrap(ErrTransport, "send request")]
    ELSE IF r.search.fail = "status"
    THEN [hits |-> <<>>, err |-> ErrStatus]
    ELSE IF r.search.fail = "decode"
    THEN [hits |-> <<>>, err |-> errorsWrap(ErrDecode, "decode response")]
    ELSE [hits |-> r.search.hits, err |-> NilErr]

\* GeniusAPIClient.getSong: the path of the song's page, or an error
getSong(r, id) ==
    IF r.song.fail = "cancel"
    THEN [path |-> <<>>, err |-> errorsWrap(ErrCanceled, "send request")]
    ELSE IF r.song.fail = "send"
    THEN [path |-> <<>>, err |-> errorsWrap(ErrTransport, "send request")]
    ELSE IF r.song.fail = "status"
    THEN [path |-> <<>>, err |-> ErrStatus]
    ELSE IF r.song.fail = "decode"
    THEN [path |-> <<>>, err |-> errorsWrap(ErrDecode, "decode response")]
    ELSE [path |-> r.song.path, err |-> NilErr]

\* s.Find("[data-exclude-from-selection]").Remove() followed by s.Html()
RECURSIVE containerHtml(_)
containerHtml(nodes) ==
    IF nodes = <<>> THEN <<>>
    ELSE (IF Head(nodes).excl THEN <<>> ELSE Head(nodes).html)
         \o containerHtml(Tail(nodes))

\* the Each loop appending every container's HTML to lyricsText
RECURSIVE lyricsText(_)
lyricsText(containers) ==
    IF containers = <<>> THEN <<>>
    ELSE containerHtml(Head(containers)) \o lyricsText(Tail(containers))

\* Document.Text(): the text nodes of the parsed fragment, i.e. the input
\* without its tags (entities are not modelled)
RECURSIVE documentText(_)
documentText(s) ==
    LET lt == IndexFrom(s, <<"<">>, 1)
        gt == IF lt = 0 THEN 0 ELSE IndexFrom(s, <<">">>, lt)
    IN IF lt = 0 \/ gt = 0 THEN s
       ELSE SubSeq(s, 1, lt - 1) \o documentText(SubSeq(s, gt + 1, Len(s)))

BrSlash == <<"<","b","r","/",">">>
Br == <<"<","b","r",">">>
DivOpen == <<"<","d","i","v",">">>
DivClose == <<"<","/","d","i","v",">">>

\* cleanLyrics turning only <br/> into a newline
cleanLyricsSlashOnly(html) ==
    LET lyrics == ReplaceAll(html, BrSlash, <<NL>>)
    IN TrimSpace(documentText(DivOpen \o lyrics \o DivClose))

\* the tail of getLyrics: line breaks to newlines, strip the markup, trim
cleanLyrics(html) ==
    LET lyrics == ReplaceAll(ReplaceAll(html, BrSlash, <<NL>>), Br, <<NL>>)
    IN TrimSpace(documentText(DivOpen \o lyrics \o DivClose))

\* GeniusAPIClient.getLyrics: the plain-text lyrics of the page, or an error
getLyrics(r, path) ==
    IF r.page.fail = "cancel"
    THEN [lyrics |-> <<>>, err |-> errorsWrap(ErrCanceled, "send request")]
    ELSE IF r.page.fail = "create"
    THEN [lyrics |-> <<>>, err |-> errorsWrap(ErrBadURL, "create request")]
    ELSE IF r.page.fail = "send"
    THEN [lyrics |-> <<>>, err |-> errorsWrap(ErrTransport, "send request")]
    ELSE IF r.page.fail = "status"
    THEN [lyrics |-> <<>>, err |-> ErrStatus]
    ELSE IF r.page.fail = "parse"
    THEN [lyrics |-> <<>>, err |-> errorsWrap(ErrRead, "parse HTML")]
    ELSE LET html == lyricsText(r.page.containers)
         IN IF Len(html) = 0
            THEN [lyrics |-> <<>>, err |-> ErrNoLyrics]
            ELSE [lyrics |-> cleanLyrics(html), err |-> NilErr]

call(stage, arg) == [stage |-> stage, arg |-> arg]

\* GetLyrics going on to the page scrape after a failed song lookup
GetLyricsNoAbort(r, artist, title) ==
    LET query == artist \o <<" ">> \o title
        searchResp == search(r, query)
        c1 == <<call("search", query)>>
    IN IF searchResp.err # NilErr
       THEN [lyrics |-> <<>>, calls |-> c1,
             err |-> errorsWrap(searchResp.err, "search genius api")]
       ELSE IF Len(searchResp.hits) = 0
       THEN [lyrics |-> <<>>, calls |-> c1, err |-> ErrNoResults]
       ELSE
       LET id == searchResp.hits[1]
           songResp == getSong(r, id)
           c2 == Append(c1, call("getSong", <<id>>))
           page == getLyrics(r, songResp.path)
           c3 == Append(c2, call("getLyrics", songResp.path))
       IN IF page.err # NilErr
          THEN [lyrics |-> <<>>, calls |-> c3,
                err |-> errorsWrap(page.err, "scrape lyrics from genius webpage")]
          ELSE [lyrics |-> page.lyrics, calls |-> c3, err |-> songResp.err]

\* GetLyrics taking an empty result list for a song without lyrics
GetLyricsEmptyOk(r, artist, title) ==
    LET query == artist \o <<" ">> \o title
        searchResp == search(r, query)
        c1 == <<call("search", query)>>
    IN IF searchResp.err # NilErr
       THEN [lyrics |-> <<>>, calls |-> c1,
             err |-> errorsWrap(searchResp.err, "search genius api")]
       ELSE IF Len(searchResp.hits) = 0
       THEN [lyrics |-> <<>>, calls |-> c1, err |-> NilErr]
       ELSE
       LET id == searchResp.hits[1]
           songResp == getSong(r, id)
           c2 == Append(c1, call("getSong", <<id>>))
       IN IF songResp.err # NilErr
          THEN [lyrics |-> <<>>, calls |-> c2,
                err |-> errorsWrap(songResp.err, "get song from genius api")]
          ELSE
          LET page == getLyrics(r, songResp.path)
              c3 == Append(c2, call("getLyrics", songResp.path))
          IN IF page.err # NilErr
             THEN [lyrics |-> <<>>, calls |-> c3,
                   err |-> errorsWrap(page.err, "scrape lyrics from genius webpage")]
             ELSE [lyrics |-> page.lyrics, calls |-> c3, err |-> NilErr]

\* GeniusAPIClient.GetLyrics: lyrics and err are what the call returns,
\* calls lists the remote requests it made, in order, with their argument
GetLyrics(r, artist, title) ==
    LET query == artist \o <<" ">> \o title
        searchResp == search(r, query)
        c1 == <<call("search", query)>>
    IN IF searchResp.err # NilErr
       THEN [lyrics |-> <<>>, calls |-> c1,
             err |-> errorsWrap(searchResp.err, "search genius api")]
       ELSE IF Len(searchResp.hits) = 0
       THEN [lyrics |-> <<>>, calls |-> c1, err |-> ErrNoResults]
       ELSE
       LET id == searchResp.hits[1]
           songResp == getSong(r, id)
           c2 == Append(c1, call("getSong", <<id>>))
       IN IF songResp.err # NilErr
          THEN [lyrics |-> <<>>, calls |-> c2,
                err |-> errorsWrap(songResp.err, "get song from genius api")]
          ELSE
          LET page == getLyrics(r, songResp.path)
              c3 == Append(c2, call("getLyrics", songResp.path))
          IN IF page.err # NilErr
             THEN [lyrics |-> <<>>, calls |-> c3,
                   err |-> errorsWrap(page.err, "scrape lyrics from genius webpage")]
             ELSE [lyrics |-> page.lyrics, calls |-> c3, err |-> NilErr]

\* error.Error(): the wrapped messages joined by ": "
RECURSIVE Error(_)
Error(err) ==
    IF Len(err) <= 1 THEN err ELSE <<Head(err), ": ">> \o Error(Tail(err))

songLyricsMsg(artist, album, title, lyrics, err) ==
    [type |-> "songLyricsMsg", artist |-> artist, album |-> album,
     title |-> title, lyrics |-> lyrics, err |-> err]

\* the function fetchLyricsCmd returns, applied to the remote's answers
fetchLyricsCmd(r, artist, album, title) ==
    LET res == GetLyrics(r, artist, title)
    IN IF res.err # NilErr
       THEN songLyricsMsg(artist, album, title,
                <<"Error fetching lyrics: ">> \o Error(res.err) \o <<NL>>, res.err)
       ELSE songLyricsMsg(artist, album, title, res.lyrics, NilErr)

-----------------------------------------------------------------------------
(* the configuration file *)

\* what main finds when it starts:
\*   xdg   : XDG_CONFIG_HOME is set
\*   home  : "ok" or "fail", the outcome of os.UserHomeDir
\*   mkdir : "ok" or "fail", the outcome of os.MkdirAll of the config directory
\*   file  : the config file is "missing", "unreadable", "malformed" (not
\*           JSON), "notoken" (JSON without the key) or "valid"
\*   token : the credential a valid file holds
\*   query : the value of the -query flag
\*   r     : what the remote answers

ErrHome == errorsNew("$HOME is not defined")
ErrMkdir == errorsNew("mkdir: permission denied")
ErrReadFile == errorsNew("open: permission denied")
ErrJSON == errorsNew("invalid character")

ConfigPath == <<"lyrics/config.json">>

getConfigPath(e) ==
    IF ~e.xdg /\ e.home = "fail"
    THEN [path |-> <<>>, err |-> errorsWrap(ErrHome, "could not determine home directory")]
    ELSE IF e.mkdir = "fail"
    THEN [path |-> <<>>, err |-> errorsWrap(ErrMkdir, "create config directory")]
    ELSE [path |-> ConfigPath, err |-> NilErr]

\* the zero value of Config
EmptyConfig == [GeniusAccessToken |-> <<>>]

LoadConfig(e) ==
    LET cp == getConfigPath(e)
    IN IF cp.err # NilErr
       THEN [config |-> EmptyConfig, err |-> errorsWrap(cp.err, "get config path")]
       ELSE IF e.file = "missing"
       THEN [config |-> EmptyConfig, err |-> NilErr]
       ELSE IF e.file = "unreadable"
       THEN [config |-> EmptyConfig, err |-> errorsWrap(ErrReadFile, "read config file")]
       ELSE IF e.file = "malformed"
       THEN [config |-> EmptyConfig, err |-> errorsWrap(ErrJSON, "parse config file")]
       ELSE IF e.file = "notoken"
       THEN [config |-> EmptyConfig, err |-> NilErr]
       ELSE [config |-> [GeniusAccessToken |-> e.token], err |-> NilErr]

-----------------------------------------------------------------------------
(* the Bubble Tea model and its Update function *)

LoadingText == <<"Loading...">>

\* viewport.SetContent: what the viewport shows.  centerText pads every line
\* of the text to the middle of the viewport width; the padded text is kept
\* as the text together with the width it was centred in.
rawContent(text) == [text |-> text, centered |-> FALSE, width |-> 0]

centerText(mm, text) == [text |-> text, centered |-> TRUE, width |-> mm.width]

\* model.updateStatusBar
updateStatusBar(mm) ==
    [mm EXCEPT !.statusBar =
        IF mm.album # <<>>
        THEN mm.artist \o <<" - ">> \o mm.album \o <<" - ">> \o mm.title
        ELSE mm.artist \o <<" - ">> \o mm.title]

\* model.updateLyrics
updateLyrics(mm, lyrics) == [mm EXCEPT !.content = centerText(mm, lyrics)]

\* initialModel of main; the viewport is still its zero value
initialModel ==
    [statusBar |-> LoadingText, lyrics |-> LoadingText,
     artist |-> <<>>, album |-> <<>>, title |-> <<>>,
     ready |-> FALSE, width |-> 0, content |-> rawContent(<<>>)]

fetchTask(artist, album, title) ==
    [artist |-> artist, album |-> album, title |-> title]

One(e) == SetToBag({e})

\* poll chains alive: timers and unhandled poll answers
Chains == ticks + BagCardinality(inbox)

\* fetches outstanding: commands running or waiting to hand over their message
Outstanding == BagCardinality(fetches)

\* window widths a resize may report
Widths == {80}

\* the player's possible answers
trackOutput(status, artist, album, title) ==
    Join(<<StatusWord \o status, TagArtist \o artist>>
         \o (IF album = <<>> THEN <<>> ELSE <<TagAlbum \o album>>)
         \o <<TagTitle \o title>>, <<NL>>)

PlayerStates ==
    { [ok |-> TRUE, out |-> trackOutput(Stopped, <<"A">>, <<"X">>, <<"T">>)],
      [ok |-> TRUE, out |-> trackOutput(Playing, <<"A">>, <<"X">>, <<"T">>)],
      [ok |-> TRUE, out |-> trackOutput(Paused, <<"B">>, <<>>, <<"U">>)] }

\* the remote's answers to a fetch for (artist, title): the song's page, or an
\* empty result list
songPage(artist, title) ==
    << << [excl |-> FALSE, html |-> <<"[">> \o artist \o <<"]">> \o BrSlash \o title],
          [excl |-> TRUE, html |-> <<"R","e","p","o","r","t">>] >> >>

remoteOk(artist, title) ==
    [search |-> [fail |-> "none", hits |-> <<7, 9>>],
     song |-> [fail |-> "none", path |-> <<"/">> \o artist \o <<"-">> \o title],
     page |-> [fail |-> "none", containers |-> songPage(artist, title)]]

Remotes(artist, title) ==
    { remoteOk(artist, title),
      [remoteOk(artist, title) EXCEPT !.search.hits = <<>>] }

\* a player that cannot be asked, one that is stopped, one whose track has no
\* title, and one playing a track
ErrPlayerStates ==
    { [ok |-> FALSE, out |-> <<>>],
      [ok |-> TRUE, out |-> StatusWord \o Stopped],
      [ok |-> TRUE, out |-> Join(<<StatusWord \o Playing, TagArtist \o <<"A">>>>, <<NL>>)],
      [ok |-> TRUE, out |-> trackOutput(Playing, <<"A">>, <<"X">>, <<"T">>)] }

\* a remote that fails: the search is refused, or the page holds no lyrics
ErrRemotes(artist, title) ==
    { [remoteOk(artist, title) EXCEPT !.search.fail = "status"],
      [remoteOk(artist, title) EXCEPT !.page.containers = <<>>] }

\* a player whose track keeps its artist and title while its album tag differs
AlbumPlayerStates ==
    { [ok |-> TRUE, out |-> trackOutput(Playing, <<"A">>, <<"X">>, <<"T">>)],
      [ok |-> TRUE, out |-> trackOutput(Paused, <<"A">>, <<"Y">>, <<"T">>)] }

\* the lyrics the song's page holds
LyricsOf(artist, title) == <<"[">> \o artist \o <<"]", NL>> \o title

idlePoll == [done |-> FALSE, msg |-> songInfoMsg(<<>>, <<>>, <<>>, NilErr)]
idleGl == [done |-> FALSE, res |-> [lyrics |-> <<>>, calls |-> <<>>, err |-> NilErr]]
idlePollIn == [ok |-> FALSE, out |-> <<>>]
idleGlIn == [artist |-> <<>>, title |-> <<>>, r |-> remoteOk(<<>>, <<>>)]

idleEnv ==
    [xdg |-> TRUE, home |-> "ok", mkdir |-> "ok", file |-> "missing",
     token |-> <<>>, query |-> <<>>, r |-> remoteOk(<<>>, <<>>)]
idleProc ==
    [pc |-> "idle", token |-> <<>>, stdout |-> <<>>, stderr |-> <<>>,
     exit |-> 0, calls |-> <<>>]

\* what the commands send, tabulated once: the message of checkCmusCmd for
\* every answer of the player, the fetches Update can start from them, and the
\* message of fetchLyricsCmd for every fetch and every answer of the remote
PollAnswers ==
    [p \in PlayerStates \cup ErrPlayerStates \cup AlbumPlayerStates |-> checkCmusCmd(p)]

Tasks ==
    {fetchTask(PollAnswers[p].artist, PollAnswers[p].album, PollAnswers[p].title) :
        p \in DOMAIN PollAnswers}

RemotesOf == [t \in Tasks |-> Remotes(t.artist, t.title)]

ErrRemotesOf == [t \in Tasks |-> ErrRemotes(t.artist, t.title)]

FetchAnswers ==
    [t \in Tasks |->
        [r \in RemotesOf[t] \cup ErrRemotesOf[t] |->
            fetchLyricsCmd(r, t.artist, t.album, t.title)]]

\* model.Init has started the first checkCmusCmd, which has queried the player
Init ==
    /\ running = TRUE
    /\ player \in PlayerStates
    /\ m = initialModel
    /\ ticks = 0
    /\ fetches = EmptyBag
    /\ inbox = One(PollAnswers[player])
    /\ pollIn = idlePollIn
    /\ pollOut = idlePoll
    /\ glIn = idleGlIn
    /\ glOut = idleGl
    /\ env = idleEnv
    /\ proc = idleProc

\* the user or the player moves on: the next query gets a different answer
PlayerChange(p) ==
    /\ running
    /\ p # player
    /\ player' = p
    /\ UNCHANGED <<running, m, ticks, fetches, inbox, pollVars, glVars, mainVars>>

\* the quit keys putting the model back to its first value on the way out
UpdateKeyQuitResetting ==
    /\ running
    /\ running' = FALSE
    /\ m' = initialModel
    /\ ticks' = 0
    /\ fetches' = EmptyBag
    /\ inbox' = EmptyBag
    /\ UNCHANGED <<player, pollVars, glVars, mainVars>>

\* Update, case "q", "ctrl+c": the model is returned as it is with tea.Quit;
\* p.Run returns it, main returns and the process ends with all its commands
UpdateKeyQuit ==
    /\ running
    /\ running' = FALSE
    /\ ticks' = 0
    /\ fetches' = EmptyBag
    /\ inbox' = EmptyBag
    /\ UNCHANGED <<player, m, pollVars, glVars, mainVars>>

\* Update, case "r": one more checkCmusCmd, which queries the player and sends
\* its message
UpdateKeyRefresh ==
    /\ running
    /\ Chains < MaxChains
    /\ inbox' = inbox (+) One(PollAnswers[player])
    /\ UNCHANGED <<running, player, m, ticks, fetches, pollVars, glVars, mainVars>>

\* Update, case tea.WindowSizeMsg
UpdateWindowSize(w) ==
    /\ running
    /\ m' = IF ~m.ready
            THEN [m EXCEPT !.width = w, !.content = rawContent(m.lyrics),
                           !.ready = TRUE]
            ELSE updateLyrics([m EXCEPT !.width = w], m.lyrics)
    /\ m' # m
    /\ UNCHANGED <<running, player, ticks, fetches, inbox, pollVars, glVars, mainVars>>

\* Update, case songInfoMsg, starting a fetch only when none is under way
UpdateSongInfoNoPreempt(msg) ==
    /\ running
    /\ BagIn(msg, inbox)
    /\ Outstanding < MaxFetches
    /\ LET m1 == IF m.artist # msg.artist \/ m.title # msg.title
                 THEN LET m2 == updateStatusBar(
                                  [m EXCEPT !.artist = msg.artist,
                                            !.album = msg.album,
                                            !.title = msg.title])
                      IN [m2 EXCEPT !.content = centerText(m2, LoadingText)]
                 ELSE m
       IN /\ m' = m1
          /\ ticks' = ticks + 1
          /\ fetches' = IF fetches = EmptyBag
                        THEN One(fetchTask(m1.artist, m1.album, m1.title))
                        ELSE fetches
    /\ inbox' = inbox (-) One(msg)
    /\ UNCHANGED <<running, player, pollVars, glVars, mainVars>>

\* Update, case songInfoMsg, starting a fetch only when the song changed
UpdateSongInfoOnChange(msg) ==
    /\ running
    /\ BagIn(msg, inbox)
    /\ Outstanding < MaxFetches
    /\ IF m.artist # msg.artist \/ m.title # msg.title
       THEN LET m2 == updateStatusBar(
                        [m EXCEPT !.artist = msg.artist,
                                  !.album = msg.album,
                                  !.title = msg.title])
            IN /\ m' = [m2 EXCEPT !.content = centerText(m2, LoadingText)]
               /\ fetches' = fetches (+) One(fetchTask(m2.artist, m2.album, m2.title))
       ELSE UNCHANGED <<m, fetches>>
    /\ ticks' = ticks + 1
    /\ inbox' = inbox (-) One(msg)
    /\ UNCHANGED <<running, player, pollVars, glVars, mainVars>>

\* Update, case songInfoMsg, taking over the album of every poll answer
UpdateSongInfoAlbum(msg) ==
    /\ running
    /\ BagIn(msg, inbox)
    /\ Outstanding < MaxFetches
    /\ LET m2 == updateStatusBar(
                    [m EXCEPT !.artist = msg.artist,
                              !.album = msg.album,
                              !.title = msg.title])
           m1 == IF m.artist # msg.artist \/ m.title # msg.title
                 THEN [m2 EXCEPT !.content = centerText(m2, LoadingText)]
                 ELSE m2
       IN /\ m' = m1
          /\ ticks' = ticks + 1
          /\ fetches' = fetches (+) One(fetchTask(m1.artist, m1.album, m1.title))
    /\ inbox' = inbox (-) One(msg)
    /\ UNCHANGED <<running, player, pollVars, glVars, mainVars>>

\* Update, case songInfoMsg, scheduling the next check only for a new song
UpdateSongInfoTickOnChange(msg) ==
    /\ running
    /\ BagIn(msg, inbox)
    /\ Outstanding < MaxFetches
    /\ LET changed == m.artist # msg.artist \/ m.title # msg.title
           m1 == IF changed
                 THEN LET m2 == updateStatusBar(
                                  [m EXCEPT !.artist = msg.artist,
                                            !.album = msg.album,
                                            !.title = msg.title])
                      IN [m2 EXCEPT !.content = centerText(m2, LoadingText)]
                 ELSE m
       IN /\ m' = m1
          /\ ticks' = IF changed THEN ticks + 1 ELSE ticks
          /\ fetches' = fetches (+) One(fetchTask(m1.artist, m1.album, m1.title))
    /\ inbox' = inbox (-) One(msg)
    /\ UNCHANGED <<running, player, pollVars, glVars, mainVars>>

\* Update, case songInfoMsg
UpdateSongInfo(msg) ==
    /\ running
    /\ BagIn(msg, inbox)
    /\ Outstanding < MaxFetches
    /\ LET m1 == IF m.artist # msg.artist \/ m.title # msg.title
                 THEN LET m2 == updateStatusBar(
                                  [m EXCEPT !.artist = msg.artist,
                                            !.album = msg.album,
                                            !.title = msg.title])
                      IN [m2 EXCEPT !.content = centerText(m2, LoadingText)]
                 ELSE m
       IN /\ m' = m1
          /\ ticks' = ticks + 1
          /\ fetches' = fetches (+) One(fetchTask(m1.artist, m1.album, m1.title))
    /\ inbox' = inbox (-) One(msg)
    /\ UNCHANGED <<running, player, pollVars, glVars, mainVars>>

\* the songLyricsMsg case adding the lyrics to those already held
handleSongLyricsAppend(mm, msg) ==
    IF msg.err # NilErr
    THEN [mm EXCEPT !.content = rawContent(Error(msg.err))]
    ELSE updateLyrics([mm EXCEPT !.lyrics = mm.lyrics \o msg.lyrics],
                      mm.lyrics \o msg.lyrics)

\* the body of Update's case songLyricsMsg
handleSongLyrics(mm, msg) ==
    IF msg.err # NilErr
    THEN [mm EXCEPT !.content = rawContent(Error(msg.err))]
    ELSE updateLyrics([mm EXCEPT !.lyrics = msg.lyrics], msg.lyrics)

\* Update, case songLyricsMsg, showing the message's lyrics field on an error
UpdateSongLyricsShowField(task, r) ==
    /\ running
    /\ BagIn(task, fetches)
    /\ LET msg == FetchAnswers[task][r]
       IN m' = updateLyrics([m EXCEPT !.lyrics = msg.lyrics], msg.lyrics)
    /\ fetches' = fetches (-) One(task)
    /\ UNCHANGED <<running, player, ticks, inbox, pollVars, glVars, mainVars>>

\* Update, case songLyricsMsg, ending the program on an error as log.Fatal
\* would
UpdateSongLyricsFatal(task, r) ==
    /\ running
    /\ BagIn(task, fetches)
    /\ LET msg == FetchAnswers[task][r]
       IN /\ m' = IF msg.err # NilErr
                  THEN [m EXCEPT !.content = rawContent(Error(msg.err))]
                  ELSE updateLyrics([m EXCEPT !.lyrics = msg.lyrics], msg.lyrics)
          /\ running' = (msg.err = NilErr)
    /\ fetches' = fetches (-) One(task)
    /\ UNCHANGED <<player, ticks, inbox, pollVars, glVars, mainVars>>

\* Update, case songLyricsMsg, for the message a fetchLyricsCmd command hands
\* over: the command was started for `task` and the remote answered r
UpdateSongLyrics(task, r) ==
    /\ running
    /\ BagIn(task, fetches)
    /\ m' = handleSongLyrics(m, FetchAnswers[task][r])
    /\ fetches' = fetches (-) One(task)
    /\ UNCHANGED <<running, player, ticks, inbox, pollVars, glVars, mainVars>>

\* a tea.Tick timer fires and hands over its message; Update, case
\* checkCmusTick: one more checkCmusCmd, which queries the player and sends its
\* message
UpdateCheckCmusTick ==
    /\ running
    /\ ticks > 0
    /\ ticks' = ticks - 1
    /\ inbox' = inbox (+) One(PollAnswers[player])
    /\ UNCHANGED <<running, player, m, fetches, pollVars, glVars, mainVars>>

Next ==
    \/ \E p \in PlayerStates : PlayerChange(p)
    \/ UpdateKeyQuit
    \/ UpdateKeyRefresh
    \/ \E w \in Widths : UpdateWindowSize(w)
    \/ \E msg \in BagToSet(inbox) : UpdateSongInfo(msg)
    \/ \E task \in BagToSet(fetches) :
         \E r \in RemotesOf[task] : UpdateSongLyrics(task, r)
    \/ UpdateCheckCmusTick

Spec == Init /\ [][Next]_vars

-----------------------------------------------------------------------------
(* the same program with a player and a remote that fail *)

InitErr ==
    /\ running = TRUE
    /\ player \in ErrPlayerStates
    /\ m = initialModel
    /\ ticks = 0
    /\ fetches = EmptyBag
    /\ inbox = One(PollAnswers[player])
    /\ pollIn = idlePollIn
    /\ pollOut = idlePoll
    /\ glIn = idleGlIn
    /\ glOut = idleGl
    /\ env = idleEnv
    /\ proc = idleProc

NextErr ==
    \/ \E p \in ErrPlayerStates : PlayerChange(p)
    \/ UpdateKeyQuit
    \/ UpdateKeyRefresh
    \/ \E w \in Widths : UpdateWindowSize(w)
    \/ \E msg \in BagToSet(inbox) : UpdateSongInfo(msg)
    \/ \E task \in BagToSet(fetches) :
         \E r \in ErrRemotesOf[task] : UpdateSongLyrics(task, r)
    \/ UpdateCheckCmusTick

SpecErr == InitErr /\ [][NextErr]_vars

\* the same program with one failing remote: every search is refused
RefusedOf ==
    [t \in Tasks |-> {[remoteOk(t.artist, t.title) EXCEPT !.search.fail = "status"]}]

NextRefused ==
    \/ \E p \in ErrPlayerStates : PlayerChange(p)
    \/ UpdateKeyQuit
    \/ UpdateKeyRefresh
    \/ \E w \in Widths : UpdateWindowSize(w)
    \/ \E msg \in BagToSet(inbox) : UpdateSongInfo(msg)
    \/ \E task \in BagToSet(fetches) :
         \E r \in RefusedOf[task] : UpdateSongLyrics(task, r)
    \/ UpdateCheckCmusTick

\* the scheduling of the event loop: a timer that was set fires, a command
\* that was started returns its message, and a message sent to the loop is
\* handled
FairRefused ==
    /\ WF_vars(UpdateCheckCmusTick)
    /\ WF_vars(\E msg \in BagToSet(inbox) : UpdateSongInfo(msg))
    /\ WF_vars(\E task \in BagToSet(fetches) :
                 \E r \in RefusedOf[task] : UpdateSongLyrics(task, r))

FairSpecRefused == InitErr /\ [][NextRefused]_vars /\ FairRefused

\* the same program with a remote that holds a page for every song
FoundOf == [t \in Tasks |-> {remoteOk(t.artist, t.title)}]

NextFound ==
    \/ \E p \in PlayerStates : PlayerChange(p)
    \/ UpdateKeyQuit
    \/ UpdateKeyRefresh
    \/ \E w \in Widths : UpdateWindowSize(w)
    \/ \E msg \in BagToSet(inbox) : UpdateSongInfo(msg)
    \/ \E task \in BagToSet(fetches) :
         \E r \in FoundOf[task] : UpdateSongLyrics(task, r)
    \/ UpdateCheckCmusTick

\* the scheduling of the event loop: a timer that was set fires, a command
\* that was started returns its message, and a message sent to the loop is
\* handled
FairFound ==
    /\ WF_vars(UpdateCheckCmusTick)
    /\ WF_vars(\E msg \in BagToSet(inbox) : UpdateSongInfo(msg))
    /\ \A task \in Tasks :
         WF_vars(BagIn(task, fetches) /\ \E r \in FoundOf[task] : UpdateSongLyrics(task, r))

FairSpecFound == Init /\ [][NextFound]_vars /\ FairFound

-----------------------------------------------------------------------------
(* the same program with a player whose album tag changes *)

InitAlbum ==
    /\ running = TRUE
    /\ player \in AlbumPlayerStates
    /\ m = initialModel
    /\ ticks = 0
    /\ fetches = EmptyBag
    /\ inbox = One(PollAnswers[player])
    /\ pollIn = idlePollIn
    /\ pollOut = idlePoll
    /\ glIn = idleGlIn
    /\ glOut = idleGl
    /\ env = idleEnv
    /\ proc = idleProc

NextAlbum ==
    \/ \E p \in AlbumPlayerStates : PlayerChange(p)
    \/ UpdateKeyQuit
    \/ UpdateKeyRefresh
    \/ \E w \in Widths : UpdateWindowSize(w)
    \/ \E msg \in BagToSet(inbox) : UpdateSongInfo(msg)
    \/ \E task \in BagToSet(fetches) :
         \E r \in RemotesOf[task] : UpdateSongLyrics(task, r)
    \/ UpdateCheckCmusTick

SpecAlbum == InitAlbum /\ [][NextAlbum]_vars

-----------------------------------------------------------------------------
(* the poller on its own: checkCmusCmd applied to every short player answer *)

PollLines ==
    { StatusWord \o Playing, StatusWord \o Paused, StatusWord \o Stopped,
      TagArtist \o <<"A">>, TagArtist \o <<" ", "B", " ">>, TagArtist,
      TagTitle \o <<"T">>, TagTitle \o StatusWord \o Paused,
      TagAlbum \o <<"X">>,
      <<"t","a","g"," ","a","l","b","u","m","a","r","t","i","s","t"," ","Z">> }

PollTexts ==
    { Join(ls, <<NL>>) : ls \in UNION { [1..n -> PollLines] : n \in 1..MaxLines } }

InitPoll ==
    /\ running = FALSE
    /\ player = idlePollIn
    /\ m = initialModel
    /\ ticks = 0
    /\ fetches = EmptyBag
    /\ inbox = EmptyBag
    /\ pollIn \in {idlePollIn} \cup { [ok |-> TRUE, out |-> t] : t \in PollTexts }
    /\ pollOut = idlePoll
    /\ glIn = idleGlIn
    /\ glOut = idleGl
    /\ env = idleEnv
    /\ proc = idleProc

PollCheckCmus ==
    /\ ~pollOut.done
    /\ pollOut' = [done |-> TRUE, msg |-> checkCmusCmd(pollIn)]
    /\ UNCHANGED <<coordVars, pollIn, glVars, mainVars>>

NextPoll == PollCheckCmus

SpecPoll == InitPoll /\ [][NextPoll]_vars

-----------------------------------------------------------------------------
(* the pipeline on its own: GetLyrics against every answer of the remote *)

SearchFails == {"none", "cancel", "send", "status", "decode"}
SongFails == {"none", "cancel", "send", "status", "decode"}
PageFails == {"none", "cancel", "create", "send", "status", "parse"}

HitLists == { <<>>, <<7>>, <<7, 9>>, <<9, 7>> }

textNode(html) == [excl |-> FALSE, html |-> html]
exclNode(html) == [excl |-> TRUE, html |-> html]

\* a container with both kinds of line break
ThreeLinesHtml ==
    <<"l","i","n","e"," ","o","n","e","<","b","r","/",">","l","i","n","e",
      " ","t","w","o","<","b","r",">","l","i","n","e"," ","t","h","r","e",
      "e">>

Pages ==
    { <<>>,
      << <<textNode(ThreeLinesHtml)>> >>,
      << <<>> >>,
      << <<exclNode(<<"R">>)>> >>,
      << <<textNode(<<"a">> \o BrSlash \o <<"b">>), exclNode(<<"R">>)>> >>,
      << <<textNode(<<"a">> \o Br)>>, <<textNode(<<"<","i",">","b","<","/","i",">"," ">>)>> >> }

GlInputs ==
    { [artist |-> a, title |-> t,
       r |-> [search |-> [fail |-> sf, hits |-> h],
              song |-> [fail |-> gf, path |-> <<"/", "p">>],
              page |-> [fail |-> pf, containers |-> c]]] :
        a \in {<<"A">>}, t \in {<<"T">>, <<>>}, sf \in SearchFails, h \in HitLists,
        gf \in SongFails, pf \in PageFails, c \in Pages }

InitGl ==
    /\ running = FALSE
    /\ player = idlePollIn
    /\ m = initialModel
    /\ ticks = 0
    /\ fetches = EmptyBag
    /\ inbox = EmptyBag
    /\ pollIn = idlePollIn
    /\ pollOut = idlePoll
    /\ glIn \in GlInputs
    /\ glOut = idleGl
    /\ env = idleEnv
    /\ proc = idleProc

GlGetLyrics ==
    /\ ~glOut.done
    /\ glOut' = [done |-> TRUE, res |-> GetLyrics(glIn.r, glIn.artist, glIn.title)]
    /\ UNCHANGED <<coordVars, pollVars, glIn, mainVars>>

NextGl == GlGetLyrics

SpecGl == InitGl /\ [][NextGl]_vars

-----------------------------------------------------------------------------
(* main: the configuration is loaded, then the one-off query or the program *)

Queries == { <<>>, <<"q">> }

Envs ==
    { e \in [xdg : BOOLEAN, home : {"ok", "fail"}, mkdir : {"ok", "fail"},
             file : {"missing", "unreadable", "malformed", "notoken", "valid"},
             token : {<<"k">>}, query : Queries,
             r : Remotes(<<"q">>, <<>>) \cup ErrRemotes(<<"q">>, <<>>)] :
        \* no config directory, no config file
        getConfigPath(e).err # NilErr => e.file = "missing" }

InitMain ==
    /\ running = FALSE
    /\ player = idlePollIn
    /\ m = initialModel
    /\ ticks = 0
    /\ fetches = EmptyBag
    /\ inbox = EmptyBag
    /\ pollIn = idlePollIn
    /\ pollOut = idlePoll
    /\ glIn = idleGlIn
    /\ glOut = idleGl
    /\ env \in Envs
    /\ proc = [idleProc EXCEPT !.pc = "start"]

\* main: LoadConfig, log.Fatal on its error, NewGeniusAPIClient
MainLoadConfig ==
    /\ proc.pc = "start"
    /\ LET c == LoadConfig(env)
       IN proc' = IF c.err # NilErr
                  THEN [proc EXCEPT !.pc = "exited", !.exit = 1, !.stderr = Error(c.err)]
                  ELSE [proc EXCEPT !.pc = "configured",
                                    !.token = c.config.GeniusAccessToken]
    /\ UNCHANGED <<coordVars, pollVars, glVars, env>>

\* main with -query printing the lyrics and going on to run the program
MainQueryThenRun ==
    /\ proc.pc = "configured"
    /\ env.query # <<>>
    /\ LET res == GetLyrics(env.r, env.query, <<>>)
       IN proc' = [proc EXCEPT !.pc = "loop", !.calls = res.calls,
                                !.stdout = res.lyrics \o <<NL>>]
    /\ running' = TRUE
    /\ inbox' = One(PollAnswers[player])
    /\ UNCHANGED <<player, m, ticks, fetches, pollVars, glVars, env>>

\* main, *singleQuery != "": GetLyrics once, log.Fatal on its error, else
\* fmt.Println of the lyrics and return
MainQuery ==
    /\ proc.pc = "configured"
    /\ env.query # <<>>
    /\ LET res == GetLyrics(env.r, env.query, <<>>)
       IN proc' = IF res.err # NilErr
                  THEN [proc EXCEPT !.pc = "exited", !.exit = 1, !.calls = res.calls,
                                    !.stderr = Error(res.err)]
                  ELSE [proc EXCEPT !.pc = "exited", !.exit = 0, !.calls = res.calls,
                                    !.stdout = res.lyrics \o <<NL>>]
    /\ UNCHANGED <<coordVars, pollVars, glVars, env>>

\* main, else branch: tea.NewProgram(initialModel).Run(), whose model.Init
\* starts the first checkCmusCmd
MainRunProgram ==
    /\ proc.pc = "configured"
    /\ env.query = <<>>
    /\ proc' = [proc EXCEPT !.pc = "loop"]
    /\ running' = TRUE
    /\ inbox' = One(PollAnswers[player])
    /\ UNCHANGED <<player, m, ticks, fetches, pollVars, glVars, env>>

NextMain ==
    \/ MainLoadConfig
    \/ MainQuery
    \/ MainRunProgram

SpecMain == InitMain /\ [][NextMain]_vars

-----------------------------------------------------------------------------
(* properties of the coordinator (Spec) *)

SameTrack(a, b) == a.artist = b.artist /\ a.title = b.title

\* the viewport shows the lyrics held by the page of song (artist, title)
ShowsLyricsOf(mm, artist, title) ==
    mm.content.centered /\ mm.content.text = LyricsOf(artist, title)

\* what GetLyrics returns for every fetch and every answer of the remote
FetchResults ==
    [t \in Tasks |->
        [r \in DOMAIN FetchAnswers[t] |-> GetLyrics(r, t.artist, t.title)]]

\* C1: a fetch result is applied to the display only if the track it was
\* issued for is still the current track when it arrives; the result of a
\* fetch for another track leaves the model as it is.
C1_StaleResultDiscarded ==
    [][\A task \in BagToSet(fetches) : \A r \in RemotesOf[task] :
          (~SameTrack(task, m) /\ UpdateSongLyrics(task, r)) => m' = m]_vars

\* C2: a poll answer for the current track (same artist and title, any album)
\* starts no lyrics fetch, as long as no manual refresh was made (one poll
\* chain alive).
C2_SameTrackNoFetch ==
    [][\A msg \in BagToSet(inbox) :
          (UpdateSongInfo(msg) /\ SameTrack(msg, m) /\ Chains = 1)
              => fetches' = fetches]_vars

\* C3: a poll answer whose (artist, title) differs from the current track makes
\* that track the current one and starts a fetch for its artist and title,
\* whatever fetches are still under way.
C3_NewTrackFetched ==
    [][\A msg \in BagToSet(inbox) :
          (UpdateSongInfo(msg) /\ ~SameTrack(msg, m))
              => /\ m'.artist = msg.artist
                 /\ m'.title = msg.title
                 /\ fetches' = fetches (+) One(fetchTask(msg.artist, msg.album, msg.title))]_vars

\* C3 witness: track B/U is current and its fetch was started while the fetch
\* for the earlier track A/T is still under way.
C3_Witness ==
    /\ m.artist = <<"B">>
    /\ m.title = <<"U">>
    /\ BagIn(fetchTask(<<"A">>, <<"X">>, <<"T">>), fetches)
    /\ BagIn(fetchTask(<<"B">>, <<>>, <<"U">>), fetches)

\* C4: when the result of a fetch for the current track arrives, the viewport
\* shows the lyrics of that track's page on success and the error's message on
\* failure.
C4_CurrentResultShown ==
    [][\A task \in BagToSet(fetches) : \A r \in RemotesOf[task] :
          (SameTrack(task, m) /\ UpdateSongLyrics(task, r))
              => IF r.search.hits = <<>>
                 THEN m'.content = rawContent(<<"no results">>)
                 ELSE /\ ShowsLyricsOf(m', task.artist, task.title)
                      /\ m'.content.width = m.width
                      /\ m'.lyrics = LyricsOf(task.artist, task.title)]_vars

\* C4 witness: the lyrics of the current track A/T are shown and no fetch is
\* left.
C4_Witness ==
    /\ m.artist = <<"A">>
    /\ m.title = <<"T">>
    /\ ShowsLyricsOf(m, <<"A">>, <<"T">>)
    /\ fetches = EmptyBag

\* C5: a poll that finds the player neither playing nor paused clears the
\* current track and starts no lyrics fetch.
C5_NoTrackStartsNoFetch ==
    [][\A msg \in BagToSet(inbox) :
          (UpdateSongInfo(msg) /\ msg.artist = <<>> /\ msg.title = NoSongTitle)
              => /\ m'.artist = <<>>
                 /\ fetches' = fetches]_vars

\* answers of a playing or paused player, each with the track it reports
PlayingOutputs ==
    { [out |-> trackOutput(st, a, al, t), artist |-> a, album |-> al, title |-> t] :
        st \in {Playing, Paused}, a \in {<<"A">>, <<"B">>},
        al \in {<<>>, <<"X">>, <<"Y">>}, t \in {<<"T">>, <<"U">>} }

\* C6: a manual refresh while the player reports track T sends a poll answer
\* for T and changes nothing shown; and handling a poll answer for T, T being
\* current and its lyrics shown, starts a new fetch for T and keeps T current.
C6_RefreshRefetches ==
    /\ [][UpdateKeyRefresh =>
            /\ m' = m
            /\ \A o \in PlayingOutputs :
                  (player.ok /\ player.out = o.out)
                    => inbox' = inbox (+) One(songInfoMsg(o.artist, o.album, o.title, NilErr))]_vars
    /\ [][\A msg \in BagToSet(inbox) :
            (UpdateSongInfo(msg) /\ SameTrack(msg, m)
                /\ ShowsLyricsOf(m, m.artist, m.title))
              => /\ fetches' = fetches (+) One(fetchTask(m.artist, m.album, m.title))
                 /\ SameTrack(m', m)]_vars

\* C6 witness: after a refresh (a second poll chain is alive) the lyrics of the
\* current track A/T are still shown and a new fetch for A/T is under way.
C6_Witness ==
    /\ Chains = 2
    /\ m.artist = <<"A">>
    /\ m.title = <<"T">>
    /\ ShowsLyricsOf(m, <<"A">>, <<"T">>)
    /\ BagIn(fetchTask(<<"A">>, m.album, <<"T">>), fetches)

\* C8: a search answered with an empty result list makes the fetch end with the
\* "no results" error after the search request alone; the viewport then shows
\* that error and the stored lyrics stay what they were.
C8_NoResultsShown ==
    [][\A task \in BagToSet(fetches) : \A r \in RemotesOf[task] :
          (r.search.fail = "none" /\ r.search.hits = <<>> /\ UpdateSongLyrics(task, r))
              => LET res == FetchResults[task][r]
                 IN /\ res.err = <<"no results">>
                    /\ res.lyrics = <<>>
                    /\ Len(res.calls) = 1
                    /\ res.calls[1].stage = "search"
                    /\ FetchAnswers[task][r].err = <<"no results">>
                    /\ m'.content = rawContent(<<"no results">>)
                    /\ m'.lyrics = m.lyrics]_vars

\* C8 witness: the viewport shows the "no results" error for track B/U, whose
\* fetch has ended.
C8_Witness ==
    /\ m.artist = <<"B">>
    /\ m.content = rawContent(<<"no results">>)
    /\ fetches = EmptyBag

-----------------------------------------------------------------------------
(* properties of the pipeline (SpecGl) *)

StageOrder == <<"search", "getSong", "getLyrics">>

\* C7: GetLyrics makes its requests in the order search, song lookup, page
\* scrape, each at most once and each with what the one before returned; a
\* failing stage is the last one requested and the call then returns an error
\* and the empty string.
C7_StagesInOrder ==
    glOut.done =>
        LET res == glOut.res
            r == glIn.r
            n == Len(res.calls)
            searchFailed == r.search.fail # "none" \/ r.search.hits = <<>>
            songFailed == r.song.fail # "none"
            pageFailed == \/ r.page.fail # "none"
                          \/ \A i \in 1..Len(r.page.containers) :
                               \A j \in 1..Len(r.page.containers[i]) :
                                  \/ r.page.containers[i][j].excl
                                  \/ r.page.containers[i][j].html = <<>>
        IN /\ n \in 1..3
           /\ \A i \in 1..n : res.calls[i].stage = StageOrder[i]
           /\ res.calls[1].arg = glIn.artist \o <<" ">> \o glIn.title
           /\ n >= 2 => res.calls[2].arg = <<r.search.hits[1]>>
           /\ n >= 3 => res.calls[3].arg = r.song.path
           /\ n = (IF searchFailed THEN 1 ELSE IF songFailed THEN 2 ELSE 3)
           /\ (res.err # NilErr) <=> (searchFailed \/ songFailed \/ pageFailed)
           /\ res.err # NilErr => res.lyrics = <<>>

\* C7 witness: the song lookup failed after a search with hits; the page was
\* never requested.
C7_Witness ==
    /\ glOut.done
    /\ glIn.r.search.fail = "none"
    /\ glIn.r.search.hits = <<9, 7>>
    /\ glIn.r.song.fail = "status"
    /\ glIn.r.page.fail = "none"
    /\ Len(glOut.res.calls) = 2
    /\ glOut.res.err # NilErr

-----------------------------------------------------------------------------
(* properties of the poller (SpecPoll) *)

IsActiveStatusLine(l) == l = StatusWord \o Playing \/ l = StatusWord \o Paused

IsTagLine(l) ==
    HasPrefix(l, TagArtist) \/ HasPrefix(l, TagAlbum) \/ HasPrefix(l, TagTitle)

KeepLine(l) == IsActiveStatusLine(l) \/ IsTagLine(l)

HasActiveStatusLine(ls) == \E i \in 1..Len(ls) : IsActiveStatusLine(ls[i])

\* the answer made of the lines ls without those of no recognised prefix
WithoutOtherLines(ls) == [ok |-> TRUE, out |-> Join(SelectSeq(ls, KeepLine), <<NL>>)]

OnlyWithPrefix(ls, j, prefix) ==
    /\ HasPrefix(ls[j], prefix)
    /\ \A i \in 1..Len(ls) : i # j => ~HasPrefix(ls[i], prefix)

\* C9 as stated: with a `status playing` or `status paused` line, any line
\* `tag artist X` and any line `tag title Y` give the descriptor artist X and
\* title Y, and the lines of no recognised prefix do not matter.
C9_AnyTagLinesParsed ==
    (pollOut.done /\ pollIn.ok) =>
        LET ls == Split(pollIn.out, <<NL>>)
        IN HasActiveStatusLine(ls) =>
            /\ \A j, k \in 1..Len(ls) :
                  (HasPrefix(ls[j], TagArtist) /\ HasPrefix(ls[k], TagTitle))
                    => /\ pollOut.msg.artist = TrimPrefix(ls[j], TagArtist)
                       /\ pollOut.msg.title = TrimPrefix(ls[k], TagTitle)
            /\ pollOut.msg = checkCmusCmd(WithoutOtherLines(ls))

\* C9 amended: with a `status playing` or `status paused` line, the only line
\* `tag artist X` and the only line `tag title Y`, X and Y not empty, give the
\* descriptor artist X and title Y, verbatim and without an error, and the
\* lines of no recognised prefix do not matter.
C9_SingleTagLinesParsed ==
    (pollOut.done /\ pollIn.ok) =>
        LET ls == Split(pollIn.out, <<NL>>)
        IN HasActiveStatusLine(ls) =>
            /\ \A j, k \in 1..Len(ls) :
                  ( /\ OnlyWithPrefix(ls, j, TagArtist)
                    /\ OnlyWithPrefix(ls, k, TagTitle)
                    /\ ls[j] # TagArtist
                    /\ ls[k] # TagTitle )
                    => /\ pollOut.msg.artist = SubSeq(ls[j], 12, Len(ls[j]))
                       /\ pollOut.msg.title = SubSeq(ls[k], 11, Len(ls[k]))
                       /\ pollOut.msg.err = NilErr
            /\ pollOut.msg = checkCmusCmd(WithoutOtherLines(ls))

\* C9 witness: status playing, `tag artist  B `, a `tag albumartist` line and a
\* title line: the descriptor's artist is " B ", spaces kept.
C9_Witness ==
    /\ pollOut.done
    /\ pollIn.ok
    /\ pollIn.out = Join(<< StatusWord \o Playing, TagArtist \o <<" ", "B", " ">>,
                            <<"t","a","g"," ","a","l","b","u","m","a","r","t","i","s","t"," ","Z">>,
                            TagTitle \o <<"T">> >>, <<NL>>)
    /\ pollOut.msg.artist = <<" ", "B", " ">>
    /\ pollOut.msg.title = <<"T">>

\* C10: an answer with a `status stopped` line and no `status playing` or
\* `status paused` line yields the no-track message, whatever its tag lines.
C10_StoppedIsNoTrack ==
    (pollOut.done /\ pollIn.ok) =>
        LET ls == Split(pollIn.out, <<NL>>)
        IN ( /\ \E i \in 1..Len(ls) : ls[i] = StatusWord \o Stopped
             /\ ~HasActiveStatusLine(ls) )
            => pollOut.msg = songInfoMsg(<<>>, <<>>, NoSongTitle, NilErr)

FirstWithPrefix(ls, j, prefix) ==
    /\ HasPrefix(ls[j], prefix)
    /\ \A i \in 1..(j - 1) : ~HasPrefix(ls[i], prefix)

\* C11: when an answer holds several lines of one tag prefix (artist, album or
\* title), the parsed value of that tag is the value of the first such line.
C11_FirstTagWins ==
    (pollOut.done /\ pollIn.ok) =>
        LET ls == Split(pollIn.out, <<NL>>)
            t == parseCmusOutput(pollIn.out)
        IN \A j \in 1..Len(ls) :
            /\ FirstWithPrefix(ls, j, TagArtist) => t.artist = TrimPrefix(ls[j], TagArtist)
            /\ FirstWithPrefix(ls, j, TagAlbum) => t.album = TrimPrefix(ls[j], TagAlbum)
            /\ FirstWithPrefix(ls, j, TagTitle) => t.title = TrimPrefix(ls[j], TagTitle)

\* no line of the prefix, or the line of the prefix that counts has no value
NoValue(ls, prefix) ==
    \A j \in 1..Len(ls) :
        (HasPrefix(ls[j], prefix) /\ \A i \in (j + 1)..Len(ls) : ~HasPrefix(ls[i], prefix))
            => ls[j] = prefix

\* C12: with a `status playing` or `status paused` line, an answer whose artist
\* or title is empty yields the message "Unknown song" with the missing-
\* information error and no artist, album or title; an answer with artist and
\* title yields a descriptor without error, with or without an album.
C12_IncompleteMetadata ==
    (pollOut.done /\ pollIn.ok) =>
        LET ls == Split(pollIn.out, <<NL>>)
        IN HasActiveStatusLine(ls) =>
            IF NoValue(ls, TagArtist) \/ NoValue(ls, TagTitle)
            THEN pollOut.msg = songInfoMsg(<<>>, <<>>, UnknownSongTitle, ErrMissing)
            ELSE /\ pollOut.msg.err = NilErr
                 /\ pollOut.msg.artist # <<>>
                 /\ pollOut.msg.title # <<>>
                 /\ NoValue(ls, TagAlbum) <=> pollOut.msg.album = <<>>

\* C12 witness: a playing answer with artist and album and no title line
\* yields the missing-information error.
C12_Witness ==
    /\ pollOut.done
    /\ pollIn.ok
    /\ pollIn.out = Join(<< StatusWord \o Playing, TagArtist \o <<"A">>,
                            TagAlbum \o <<"X">> >>, <<NL>>)
    /\ pollOut.msg.err = ErrMissing
    /\ pollOut.msg.title = UnknownSongTitle

-----------------------------------------------------------------------------
(* properties of the program with a failing player and remote (SpecErr) *)

\* C13: with a player that is unavailable, stopped or without a title and a
\* remote whose fetches fail, only the quit keys end the event loop, and while
\* it runs it takes the quit and refresh keys, every pending timer, every
\* pending poll answer and every pending fetch result.
C13_ErrorsNeverTerminate ==
    /\ [][(running /\ ~running') => UpdateKeyQuit]_vars
    /\ [](running =>
            /\ ENABLED UpdateKeyQuit
            /\ Chains < MaxChains => ENABLED UpdateKeyRefresh
            /\ ticks > 0 => ENABLED UpdateCheckCmusTick
            /\ Outstanding < MaxFetches =>
                  \A msg \in BagToSet(inbox) : ENABLED UpdateSongInfo(msg)
            /\ \A task \in BagToSet(fetches) : \A r \in ErrRemotesOf[task] :
                  ENABLED UpdateSongLyrics(task, r))

\* C13 witness: the unavailable player was reported and the fetch started for
\* it was refused by the remote; the loop runs and a poll timer is pending.
C13_Witness ==
    /\ running
    /\ m.title = ErrCmusTitle
    /\ m.content = rawContent(<<"search genius api", ": ", "unexpected status code">>)
    /\ ticks > 0

-----------------------------------------------------------------------------
(* properties of main (SpecMain) *)

ConfigFails(e) ==
    \/ ~e.xdg /\ e.home = "fail"
    \/ e.mkdir = "fail"
    \/ e.file \in {"unreadable", "malformed"}

FetchFails(r) ==
    \/ r.search.fail # "none"
    \/ r.search.hits = <<>>
    \/ r.song.fail # "none"
    \/ r.page.fail # "none"
    \/ r.page.containers = <<>>

\* C14: with a non-empty -query flag the event loop is never started and at
\* most one search is sent; the process ends with a failure and empty standard
\* output when the configuration or the fetch fails, and otherwise ends with
\* the lyrics of the page on standard output.
C14_OneOffQuery ==
    env.query # <<>> =>
        /\ ~running
        /\ inbox = EmptyBag
        /\ proc.pc \in {"start", "configured", "exited"}
        /\ Cardinality({i \in 1..Len(proc.calls) : proc.calls[i].stage = "search"}) <= 1
        /\ proc.calls # <<>> => proc.calls[1] = call("search", env.query \o <<" ">>)
        /\ proc.pc = "exited" =>
              IF ConfigFails(env)
              THEN proc.exit = 1 /\ proc.stdout = <<>> /\ proc.calls = <<>>
                     /\ proc.stderr # <<>>
              ELSE IF FetchFails(env.r)
              THEN proc.exit = 1 /\ proc.stdout = <<>> /\ proc.calls # <<>>
                     /\ proc.stderr # <<>>
              ELSE proc.exit = 0 /\ proc.stdout = <<"[", "q", "]", NL>>
                     /\ Len(proc.calls) = 3

\* C14 witness: without a config file the query q was answered and its lyrics
\* printed.
C14_Witness ==
    /\ env.query = <<"q">>
    /\ env.file = "missing"
    /\ proc.pc = "exited"
    /\ proc.exit = 0
    /\ proc.token = <<>>
    /\ proc.stdout = <<"[", "q", "]", NL>>

-----------------------------------------------------------------------------
(* further properties of the pipeline (SpecGl) *)

ThreeLinesText ==
    <<"l","i","n","e"," ","o","n","e",NL,"l","i","n","e"," ","t","w","o",NL,
      "l","i","n","e"," ","t","h","r","e","e">>

\* C15: the lyrics GetLyrics returns hold no markup and no white space at
\* either end, and every <br/> and <br> of the page has become a newline:
\* "line one<br/>line two<br>line three" gives the three lines, "a<br/>b" and
\* "a<br>" followed by "<i>b</i> " give the lines a and b.
C15_LineBreaksNormalized ==
    (glOut.done /\ glOut.res.err = NilErr) =>
        LET html == lyricsText(glIn.r.page.containers)
            out == glOut.res.lyrics
        IN /\ \A i \in 1..Len(out) : out[i] \notin {"<", ">"}
           /\ out # <<>> => (out[1] \notin WhiteSpace /\ out[Len(out)] \notin WhiteSpace)
           /\ html = ThreeLinesHtml => out = ThreeLinesText
           /\ html = <<"a">> \o BrSlash \o <<"b">> => out = <<"a", NL, "b">>
           /\ html = <<"a">> \o Br \o <<"<","i",">","b","<","/","i",">"," ">>
                 => out = <<"a", NL, "b">>

\* C15 witness: the page "line one<br/>line two<br>line three" was scraped.
C15_Witness ==
    /\ glOut.done
    /\ glOut.res.err = NilErr
    /\ lyricsText(glIn.r.page.containers) = ThreeLinesHtml
    /\ glOut.res.lyrics = ThreeLinesText

\* the stage whose request is under way when the context is cancelled, 0 when
\* the call ends without that
CancelledAt(r) ==
    IF r.search.fail = "cancel" THEN 1
    ELSE IF r.search.fail # "none" \/ r.search.hits = <<>> THEN 0
    ELSE IF r.song.fail = "cancel" THEN 2
    ELSE IF r.song.fail # "none" THEN 0
    ELSE IF r.page.fail = "cancel" THEN 3
    ELSE 0

\* C16: when the context is cancelled during the request of a stage, that
\* request is the last one GetLyrics makes, and the call returns the
\* cancellation error and the empty string.
C16_CancelAborts ==
    (glOut.done /\ CancelledAt(glIn.r) # 0) =>
        LET res == glOut.res
        IN /\ Len(res.calls) = CancelledAt(glIn.r)
           /\ res.err # NilErr
           /\ res.err[Len(res.err)] = "context canceled"
           /\ res.lyrics = <<>>

\* C16 witness: the context was cancelled during the song lookup, after a
\* search with hits; the page, which holds lyrics, was never requested.
C16_Witness ==
    /\ glOut.done
    /\ glIn.r.search.fail = "none"
    /\ glIn.r.search.hits = <<7>>
    /\ glIn.r.song.fail = "cancel"
    /\ glIn.r.page.fail = "none"
    /\ glIn.r.page.containers = << <<textNode(ThreeLinesHtml)>> >>
    /\ Len(glOut.res.calls) = 2
    /\ glOut.res.err = <<"get song from genius api", "send request", "context canceled">>

-----------------------------------------------------------------------------
(* further properties of the coordinator (Spec) *)

\* C17: every songLyricsMsg handed to Update has exactly one of its lyrics and
\* err fields set: an error comes with empty lyrics, and no error with lyrics.
C17_LyricsXorError ==
    [][\A task \in BagToSet(fetches) : \A r \in RemotesOf[task] :
          UpdateSongLyrics(task, r)
              => LET msg == FetchAnswers[task][r]
                 IN (msg.err # NilErr) <=> (msg.lyrics = <<>>)]_vars

\* the viewport and the model hold what applying msg leaves in them
Displays(mm, msg) ==
    IF msg.err # NilErr
    THEN mm.content = rawContent(Error(msg.err))
    ELSE /\ mm.lyrics = msg.lyrics
         /\ mm.content = [text |-> msg.lyrics, centered |-> TRUE, width |-> mm.width]

\* C18: after the result of a fetch for the current track was applied,
\* applying the same result again gives the same model; and a result applied
\* to a model that already holds and shows it leaves the model as it is.
C18_SecondApplyNoOp ==
    [][\A task \in BagToSet(fetches) : \A r \in RemotesOf[task] :
          (SameTrack(task, m) /\ UpdateSongLyrics(task, r))
              => /\ handleSongLyrics(m', FetchAnswers[task][r]) = m'
                 /\ Displays(m', FetchAnswers[task][r])
                 /\ Displays(m, FetchAnswers[task][r]) => m' = m]_vars

\* C18 witness: the lyrics of the current track A/T are held and shown in a
\* window of width 80 while two more fetches for A/T are under way.
C18_Witness ==
    /\ m.artist = <<"A">>
    /\ m.title = <<"T">>
    /\ m.ready
    /\ m.lyrics = LyricsOf(<<"A">>, <<"T">>)
    /\ ShowsLyricsOf(m, <<"A">>, <<"T">>)
    /\ CopiesIn(fetchTask(<<"A">>, <<"X">>, <<"T">>), fetches) = 2

-----------------------------------------------------------------------------
(* further properties of main (SpecMain) *)

\* main ended in log.Fatal(err) right after LoadConfig
ConfigRefused == proc.pc = "exited" /\ proc.exit = 1 /\ proc.calls = <<>>

\* C19: without a config file, loading the configuration gives no error and
\* main goes on with an empty credential; an unreadable file and a file that
\* is not JSON end main with the error.
C19_MissingConfigIsEmpty ==
    proc.pc # "start" =>
        /\ env.file = "missing" => (~ConfigRefused /\ proc.token = <<>>)
        /\ env.file \in {"unreadable", "malformed"} => ConfigRefused

-----------------------------------------------------------------------------
(* the errors of the pipeline (SpecGl) *)

\* the message GetLyrics wraps the error of each stage in
StageMessage ==
    <<"search genius api", "get song from genius api",
      "scrape lyrics from genius webpage">>

\* C20: every error GetLyrics returns starts with the message naming the stage
\* that was the last one requested, the search included when its result list
\* is empty.
C20_ErrorsNameStage ==
    (glOut.done /\ glOut.res.err # NilErr) =>
        glOut.res.err[1] = StageMessage[Len(glOut.res.calls)]

-----------------------------------------------------------------------------
(* the quit keys (Spec) *)

\* C26: while the event loop runs a quit key is always taken, whatever timers,
\* poll answers and fetches are pending; handling it ends the loop, leaves the
\* model as it is and adds no poll timer, poll answer or fetch.
C26_QuitEndsLoop ==
    /\ [](running => ENABLED UpdateKeyQuit)
    /\ [][UpdateKeyQuit =>
            /\ ~running'
            /\ m' = m
            /\ ticks' <= ticks
            /\ inbox' \sqsubseteq inbox
            /\ fetches' \sqsubseteq fetches]_vars
    /\ [][~running => UNCHANGED vars]_vars

\* C26 witness: the loop has ended while "Loading..." was shown for track
\* A/T, that is, before the result of any fetch for it was handled.
C26_Witness ==
    /\ ~running
    /\ m.artist = <<"A">>
    /\ m.title = <<"T">>
    /\ m.content.text = LoadingText
    /\ m.content.centered

-----------------------------------------------------------------------------
(* the poll chains (Spec) *)

\* C24: at any time at most one poll chain is alive: the pending timers and
\* the poll answers not yet handled, each of which leads to a further timer,
\* are never more than one.
C24_OnePollChain == Chains <= 1

-----------------------------------------------------------------------------
(* properties of the program with a changing album tag (SpecAlbum) *)

\* C23: handling a poll answer whose artist and title are those of the current
\* track, with the same or another album, leaves the whole model as it is:
\* artist, album, title, status bar, stored lyrics and viewport content.
C23_SameTrackNoChange ==
    [][\A msg \in BagToSet(inbox) :
          (UpdateSongInfo(msg) /\ SameTrack(msg, m)) => m' = m]_vars

\* C23 witness: the lyrics of track A/T, album X, are shown under the status
\* bar "A - X - T" while the player reports album Y, one more fetch for it has
\* been started and the next poll timer is pending.
C23_Witness ==
    /\ running
    /\ player = [ok |-> TRUE, out |-> trackOutput(Paused, <<"A">>, <<"Y">>, <<"T">>)]
    /\ m.album = <<"X">>
    /\ m.statusBar = <<"A", " - ", "X", " - ", "T">>
    /\ ShowsLyricsOf(m, <<"A">>, <<"T">>)
    /\ inbox = EmptyBag
    /\ ticks = 1
    /\ Outstanding = 1

-----------------------------------------------------------------------------
(* resizing the window (Spec) *)

\* the texts Update shows for the fetches that fail
FetchErrorTexts ==
    { Error(FetchAnswers[t][r].err) :
        <<t, r>> \in { <<t, r>> \in Tasks \X UNION { DOMAIN FetchAnswers[t] : t \in Tasks } :
                        r \in DOMAIN FetchAnswers[t] /\ FetchAnswers[t][r].err # NilErr } }

ShowsPlaceholder(mm) == mm.content.centered /\ mm.content.text = LoadingText

ShowsFetchError(mm) == ~mm.content.centered /\ mm.content.text \in FetchErrorTexts

\* C25: a resize of a window that shows the "Loading..." placeholder or the
\* error of a fetch leaves that text in the viewport.
C25_ResizeKeepsText ==
    [][\A w \in Widths :
          (UpdateWindowSize(w) /\ (ShowsPlaceholder(m) \/ ShowsFetchError(m)))
              => m'.content.text = m.content.text]_vars

-----------------------------------------------------------------------------
(* polling goes on (FairSpecRefused) *)

\* C22: while the event loop runs a poll chain is alive; handling a poll
\* answer, be it a track or an error of the poller, sets the next timer; and
\* as long as the loop has not ended a timer fires and the player is asked
\* again, over and over.
C22_PollingGoesOn ==
    /\ [](running => Chains >= 1)
    /\ [][\A msg \in BagToSet(inbox) : UpdateSongInfo(msg) => ticks' = ticks + 1]_vars
    /\ ([]<>(~running) \/ []<><<UpdateCheckCmusTick>>_vars)

\* C22 witness: the answer of the unavailable player was handled and the only
\* poll chain is now its pending timer.
C22_Witness ==
    /\ running
    /\ m.title = ErrCmusTitle
    /\ inbox = EmptyBag
    /\ ticks = 1

-----------------------------------------------------------------------------
(* the view follows the player (FairSpecFound) *)

PlayingT == [ok |-> TRUE, out |-> trackOutput(Playing, <<"A">>, <<"X">>, <<"T">>)]

\* the window shows track A - X - T and the lyrics of its page
ShowsT ==
    /\ m.artist = <<"A">>
    /\ m.title = <<"T">>
    /\ m.statusBar = <<"A", " - ", "X", " - ", "T">>
    /\ m.content.text = LyricsOf(<<"A">>, <<"T">>)

\* C21: when from some point on the loop runs in its window, the player
\* reports track T and every fetch finds its page, the window comes to show T
\* with T's lyrics and from some point on shows them for good, whatever
\* results of fetches for earlier tracks arrive in between.
C21_ViewFollowsPlayer ==
    <>[](running /\ m.ready /\ player = PlayingT) => <>[]ShowsT

\* C21 witness: the player is on T, the window shows T and its lyrics, and a
\* fetch that was started for the earlier track U is still to return.
C21_Witness ==
    /\ running
    /\ m.ready
    /\ player = PlayingT
    /\ ShowsT
    /\ BagIn(fetchTask(<<"B">>, <<>>, <<"U">>), fetches)

====
